---- MODULE Spec2Model ----
(***************************************************************************)
(* The task scheduler of github.com/darkit/cron (scheduler.go): the task   *)
(* map, the per-task loops (runTask), admission control and the execution  *)
(* pipeline (executeTask, executeTaskJob, executeHandler, SafeCall).       *)
(*                                                                         *)
(* Time is kept relative to the current instant: a runner's nextRun is the *)
(* distance from now to the stored time.Time (0 or less: already due), and *)
(* Tick lets one unit of time pass.  A unit is a schedule period (seconds  *)
(* at least), so a goroutine that is ready to run does so before the unit  *)
(* is over: Tick waits for the steps listed in Urgent.  Job bodies, API    *)
(* callers and timeouts take any time.  A context is kept by value as its  *)
(* Done state; cancelling a context sets Done in every context derived     *)
(* from it (the runner contexts and the execution contexts).               *)
(***************************************************************************)
EXTENDS Integers, FiniteSets, Sequences, Bags, TLC

\* ------------------------------------------------------------------ bounds
MaxRunners == 2     \* taskRunner objects alive at once (registered or not)
MaxExec == 2        \* executions (pipeline or job body) in flight at once
Capacity == 2       \* maxCacheSize of the expression cache (1000 in the source)
MaxCalls == 6       \* calls of parseWithCache begun
MaxCallers == 2     \* goroutines that call parseWithCache side by side
SecondsPerMinute == 2   \* the calendar of package time, scaled down: 60,
MinutesPerHour == 2     \* 60,
HoursPerDay == 3        \* 24,
MaxDom == 3             \* 31 days in a long month, one less in a short one,
MonthsPerYear == 2      \* 12,
DaysPerWeek == 2        \* 7
MaxWatchers == 2    \* contextWatcher goroutines alive at once
MaxRuns == 2        \* invocations of a task counted in its statistics
MaxPanics == 2      \* calls of the PanicHandler for a task

Runners == 1..MaxRunners

\* ------------------------------------------------------------------ inputs
IDs == {"a", "b"}

\* A schedule expression: a descriptor name and, for @every, its duration.
Exprs ==
    { [name |-> "@every", dur |-> 1],
      [name |-> "@every", dur |-> 0],
      [name |-> "@bogus", dur |-> 0] }

JobOptions ==
    { [Timeout |-> 0, Async |-> FALSE, MaxConcurrent |-> 0],
      [Timeout |-> 0, Async |-> TRUE, MaxConcurrent |-> 0],
      [Timeout |-> 1, Async |-> FALSE, MaxConcurrent |-> 1],
      [Timeout |-> 1, Async |-> TRUE, MaxConcurrent |-> 1] }

TaskInputs == [ID : IDs, Schedule : Exprs, Options : JobOptions]

\* ------------------------------------------------------------------- state
VARIABLES
    tasks,      \* scheduler.tasks: task ID -> runner
    running,    \* scheduler.running
    mu,         \* scheduler.mu: "free", or held while stop() is in wg.Wait
                \* ("stop": called through the API, "watcher": by contextWatcher)
    runners,    \* the taskRunner objects
    loops,      \* position of each runner's runTask goroutine
    execs,      \* executions in flight (a bag): pipeline position and job body
    ret,        \* what the last API call returned
    cache,      \* parserCache.cache: expression -> Schedule object
    accessOrder,\* parserCache.accessOrder: expressions, oldest access first
    callers,    \* the callers of parseWithCache: position, locals, result
    calls,      \* calls of parseWithCache begun so far
    lru,        \* history: the cached expressions by last access (insert or
                \* promotion), least recent first
    evictions,  \* history: inserts so far that found the map full
    nx,         \* a call of SpecSchedule.Next: receiver, argument, locals
    rootCtx,    \* scheduler.rootCtx: "background", or "live" / "done" for a
                \* context that can be cancelled
    watchers,   \* Cron.contextWatcher goroutines waiting for rootCtx
    monitor,    \* scheduler.monitor: nil (off), or the statistics by task ID
    handled,    \* scheduler.panicHandler: nil (off), or the calls it got
    job         \* a jobModel of the cronScheduler of doc.go: its counter,
                \* its loop and the goroutines the loop has started

\* the state of the parser package, which the scheduler's steps leave alone
cacheVars == <<cache, accessOrder, callers, calls, lru, evictions>>

parserVars == <<cacheVars, nx>>

\* the state of the scheduler, which the parser's steps leave alone
schedulerVars == <<tasks, running, mu, runners, loops, execs, ret>>

\* the state of the Cron around the scheduler
cronVars == <<rootCtx, watchers>>

\* the collaborators the execution pipeline reports to
monitorVars == <<monitor, handled>>

\* the state of the cronScheduler of doc.go, which runs jobs of its own
legacyVars == <<job>>

vars == <<schedulerVars, parserVars, cronVars, monitorVars, legacyVars>>

NoRunner == [task |-> "none"]

\* no jobModel made yet
NoJob == [made |-> FALSE, maxConcurrent |-> 0, running |-> 0, loop |-> "none",
          ctx |-> FALSE, gs |-> EmptyBag]

\* time.Now() on the relative time axis
Now == 0

\* ----------------------------------------------------------------- parsing
\* The zero time (time.Time{}), which SpecSchedule.Next returns when it finds
\* no time: on the relative time axis an instant long before now.
ZeroTime == -1

\* A cron expression that no date satisfies: the 30th of February.
Feb30 == [name |-> "0 0 0 30 2 *", dur |-> 0]

\* Schedule.Next.  ConstantDelaySchedule: t + Delay.  SpecSchedule: of the
\* cron expressions only Feb30 is among the inputs, and Next finds no time
\* for its fields within the year limit.
ScheduleNext(schedule, t) ==
    IF "Delay" \in DOMAIN schedule THEN t + schedule.Delay ELSE ZeroTime

\* Parser.parseEvery: a positive duration gives a ConstantDelaySchedule
parseEvery(dur) ==
    IF dur <= 0
    THEN [err |-> TRUE, schedule |-> "none"]
    ELSE [err |-> FALSE, schedule |-> [Delay |-> dur]]

\* Parser.parseDescriptor for the descriptors of Exprs
parseDescriptor(spec) ==
    IF spec.name = "@every"
    THEN parseEvery(spec.dur)
    ELSE [err |-> TRUE, schedule |-> "none"]

\* Parser.parseCronFields for Feb30: the SpecSchedule of its six fields
parseCronFields(spec) ==
    [err |-> FALSE,
     schedule |-> [Second |-> {0}, Minute |-> {0}, Hour |-> {0},
                   Dom |-> {30}, Month |-> {2}, Dow |-> "*"]]

\* Parser.parseNoCache: a descriptor, or the fields of a cron expression
parseNoCache(spec) ==
    IF spec = Feb30 THEN parseCronFields(spec) ELSE parseDescriptor(spec)

\* ----------------------------------------------------------------- helpers
Registered(r) == \E id \in DOMAIN tasks : tasks[id] = r

\* the executions of bag es that satisfy P, counted with their copies
CountOf(es, P(_)) ==
    LET S == {x \in BagToSet(es) : P(x)}
        Sum[T \in SUBSET S] ==
            IF T = {} THEN 0
            ELSE LET x == CHOOSE y \in T : TRUE
                 IN CopiesIn(x, es) + Sum[T \ {x}]
    IN Sum[S]

\* executions of runner r in flight
ExecsOf(r) == LET Of(x) == x.r = r IN CountOf(execs, Of)

\* job bodies of runner r that have started and not yet returned
RunningBodies(r) ==
    LET Runs(x) == x.r = r /\ x.body = "running" IN CountOf(execs, Runs)

FreeRunners == {r \in Runners : runners[r] = NoRunner}

\* es with one copy of execution x replaced by y
Replace(es, x, y) == (es (-) SetToBag({x})) (+) SetToBag({y})
Without(es, x) == es (-) SetToBag({x})

LowestOf(S) == CHOOSE x \in S : \A y \in S : x <= y

\* A runner that is in no map and whose loop has returned is garbage.  Of
\* its executions only the pipelines still matter (they report to the
\* Monitor): they go on with r = 0 and a context that is Done for good, so
\* that neither their deadline nor their slot matter; a job body whose
\* pipeline has returned is out of everyone's sight.
Gone(rs, ts, ls) ==
    {r \in Runners : /\ rs[r] # NoRunner
                     /\ \A id \in DOMAIN ts : ts[id] # r
                     /\ ls[r] = "none"}

Collect(rs, ts, ls) ==
    [r \in Runners |-> IF r \in Gone(rs, ts, ls) THEN NoRunner ELSE rs[r]]

\* bag es with every execution x replaced by the element of F(x), or dropped
\* if F(x) is empty
MapBag(es, F(_)) ==
    LET S == BagToSet(es)
        Sum[T \in SUBSET S] ==
            IF T = {} THEN EmptyBag
            ELSE LET x == CHOOSE y \in T : TRUE
                 IN [c \in F(x) |-> CopiesIn(x, es)] (+) Sum[T \ {x}]
    IN Sum[S]

Orphan(es, G) ==
    LET F(x) == IF x.r \notin G THEN {x}
                ELSE IF x.pc = "done" THEN {}
                ELSE {[x EXCEPT !.r = 0, !.slot = FALSE, !.timed = FALSE,
                                !.exceeded = FALSE,
                                !.ctx = (x.pc # "start")]}
    IN MapBag(es, F)

Ret(op, err) == [op |-> op, err |-> err]

Callers == 1..MaxCallers

\* no call of SpecSchedule.Next
NoCall == [pc |-> "none"]

\* no expression and no Schedule (nil)
NoSpec == [name |-> "none", dur |-> 0]
NoSchedule == [obj |-> 0, schedule |-> [Delay |-> 0]]

\* a caller outside parseWithCache; result is what its last call returned
Idle(result) == [pc |-> "idle", spec |-> NoSpec, schedule |-> NoSchedule,
                 result |-> result]

\* what a call of parseWithCache returned for spec: the error or the
\* schedule, with the number of evictions so far
Result(spec, err, schedule, n) ==
    [spec |-> spec, err |-> err, schedule |-> schedule, evictions |-> n]

\* a caller that has not called yet
NoResult == Result(NoSpec, FALSE, NoSchedule, 0)

InitState ==
    /\ tasks = <<>>
    /\ running = FALSE
    /\ mu = "free"
    /\ runners = [r \in Runners |-> NoRunner]
    /\ loops = [r \in Runners |-> "none"]
    /\ execs = EmptyBag
    /\ ret = Ret("new", "nil")
    /\ cache = <<>>
    /\ accessOrder = <<>>
    /\ callers = [c \in Callers |-> Idle(NoResult)]
    /\ calls = 0
    /\ lru = <<>>
    /\ evictions = 0
    /\ job = NoJob

\* a scheduler made by newScheduler: a background root context, no Monitor
\* and no PanicHandler
InitScheduler ==
    /\ rootCtx = "background"
    /\ watchers = 0
    /\ monitor = [on |-> FALSE, stats |-> <<>>]
    /\ handled = [on |-> FALSE, calls |-> [id \in IDs |-> 0]]

Init == InitState /\ InitScheduler /\ nx = NoCall

\* ----------------------------------------------------------------- Monitor
\* The statistics of a task as Monitor.addTask makes them.  LastRun and
\* CreatedAt are times and are left out.
NewStats == [RunCount |-> 0, SuccessCount |-> 0, IsRunning |-> FALSE]

\* Monitor.addTask: fresh statistics for the ID, whatever was there
monitorAddTask(m, id) ==
    IF ~m.on THEN m
    ELSE [m EXCEPT !.stats = [i \in DOMAIN m.stats \cup {id} |->
                                 IF i = id THEN NewStats ELSE m.stats[i]]]

\* Monitor.removeTask
monitorRemoveTask(m, id) ==
    IF ~m.on THEN m
    ELSE [m EXCEPT !.stats = [i \in DOMAIN m.stats \ {id} |-> m.stats[i]]]

\* a variant of recordExecution that counts every invocation as a success
recordExecutionAsSuccess(m, id, success) ==
    IF ~m.on \/ id \notin DOMAIN m.stats THEN m
    ELSE [m EXCEPT !.stats[id].RunCount = @ + 1,
                   !.stats[id].SuccessCount = @ + 1]

\* a variant of recordExecution that leaves RunCount alone
recordExecutionNoRunCount(m, id, success) ==
    IF ~m.on \/ id \notin DOMAIN m.stats THEN m
    ELSE [m EXCEPT !.stats[id].SuccessCount = IF success THEN @ + 1 ELSE @]

\* Monitor.recordExecution, called when s.monitor is not nil
recordExecution(m, id, success) ==
    IF ~m.on \/ id \notin DOMAIN m.stats THEN m
    ELSE [m EXCEPT !.stats[id].RunCount = @ + 1,
                   !.stats[id].SuccessCount = IF success THEN @ + 1 ELSE @]

\* Monitor.setRunning, called when s.monitor is not nil
setRunning(m, id, isRunning) ==
    IF ~m.on \/ id \notin DOMAIN m.stats THEN m
    ELSE [m EXCEPT !.stats[id].IsRunning = isRunning]

\* PanicHandler.HandlePanic(taskID, ...): one more call for the ID
HandlePanic(h, id) ==
    IF ~h.on THEN h ELSE [h EXCEPT !.calls[id] = @ + 1]

\* ------------------------------------------------------------ scheduler API
\* The taskRunner addTask constructs: nextRun, a child context of s.ctx
\* (itself a child of the root context, and Done from the start if that is) and,
\* for MaxConcurrent > 0, an empty semaphore of that capacity (semaphore is
\* the number of elements in the channel).
NewRunner(task, schedule) ==
    [ task      |-> task,
      schedule  |-> schedule,
      nextRun   |-> ScheduleNext(schedule, Now),
      ctx       |-> rootCtx = "done",
      semaphore |-> 0 ]

\* a variant of addTask that replaces the runner of an ID already present
addTaskOverwrite(task) ==
    /\ mu = "free"
    /\ ~parseDescriptor(task.Schedule).err
    /\ FreeRunners # {}
    /\ LET r == LowestOf(FreeRunners)
           ts == [id \in DOMAIN tasks \cup {task.ID} |->
                     IF id = task.ID THEN r ELSE tasks[id]]
       IN /\ tasks' = ts
          /\ runners' = [runners EXCEPT
                 ![r] = NewRunner(task, parseDescriptor(task.Schedule).schedule)]
          /\ loops' = IF running THEN [loops EXCEPT ![r] = "wait"] ELSE loops
    /\ ret' = Ret("addTask", "nil")
    /\ UNCHANGED <<running, mu, execs>>
    /\ UNCHANGED <<parserVars, legacyVars, cronVars, monitorVars>>

\* a variant of addTask that registers a runner without looking at the parse error
addTaskNoParseCheck(task) ==
    /\ mu = "free"
    /\ IF task.ID \in DOMAIN tasks
       THEN /\ ret' = Ret("addTask", "DuplicateTask")
            /\ UNCHANGED <<tasks, runners, loops>>
       ELSE /\ FreeRunners # {}
            /\ LET r == LowestOf(FreeRunners)
               IN /\ tasks' = [id \in DOMAIN tasks \cup {task.ID} |->
                                  IF id = task.ID THEN r ELSE tasks[id]]
                  /\ runners' = [runners EXCEPT ![r] = NewRunner(task, [Delay |-> 1])]
                  /\ loops' = IF running THEN [loops EXCEPT ![r] = "wait"] ELSE loops
            /\ ret' = Ret("addTask", "nil")
    /\ UNCHANGED <<running, mu, execs>>
    /\ UNCHANGED <<parserVars, legacyVars, cronVars, monitorVars>>

\* a variant of addTask that leaves the start of the loop to start()
addTaskNoLoop(task) ==
    /\ mu = "free"
    /\ IF task.ID \in DOMAIN tasks
       THEN /\ ret' = Ret("addTask", "DuplicateTask")
            /\ UNCHANGED <<tasks, runners>>
       ELSE LET p == parseNoCache(task.Schedule)
            IN IF p.err
               THEN /\ ret' = Ret("addTask", "InvalidSpecification")
                    /\ UNCHANGED <<tasks, runners>>
               ELSE /\ FreeRunners # {}
                    /\ LET r == LowestOf(FreeRunners)
                       IN /\ tasks' = [id \in DOMAIN tasks \cup {task.ID} |->
                                          IF id = task.ID THEN r ELSE tasks[id]]
                          /\ runners' = [runners EXCEPT
                                 ![r] = NewRunner(task, p.schedule)]
                    /\ ret' = Ret("addTask", "nil")
    /\ UNCHANGED <<running, mu, execs, loops>>
    /\ UNCHANGED <<parserVars, legacyVars, cronVars, monitorVars>>

\* scheduler.addTask
addTask(task) ==
    /\ mu = "free"
    /\ IF task.ID \in DOMAIN tasks
       THEN /\ ret' = Ret("addTask", "DuplicateTask")
            /\ UNCHANGED <<tasks, runners, loops>>
       ELSE LET p == parseNoCache(task.Schedule)
            IN IF p.err
               THEN /\ ret' = Ret("addTask", "InvalidSpecification")
                    /\ UNCHANGED <<tasks, runners, loops>>
               ELSE /\ FreeRunners # {}
                    /\ LET r == LowestOf(FreeRunners)
                       IN /\ tasks' = [id \in DOMAIN tasks \cup {task.ID} |->
                                          IF id = task.ID THEN r ELSE tasks[id]]
                          /\ runners' = [runners EXCEPT
                                 ![r] = NewRunner(task, p.schedule)]
                          /\ loops' = IF running
                                      THEN [loops EXCEPT ![r] = "wait"]
                                      ELSE loops
                    /\ ret' = Ret("addTask", "nil")
    /\ UNCHANGED <<running, mu, execs>>
    /\ UNCHANGED <<parserVars, legacyVars, cronVars, monitorVars>>

\* cancelling a runner's context: Done in the context and in every execution
\* context derived from it (an execution derives its context in run)
CancelRunner(rs, r) == [rs EXCEPT ![r].ctx = TRUE]
CancelExec(x, R) ==
    IF x.r \in R /\ x.pc # "start" THEN [x EXCEPT !.ctx = TRUE] ELSE x
CancelExecsOf(es, R) == LET F(x) == {CancelExec(x, R)} IN MapBag(es, F)

\* a variant of removeTask that deletes the map entry without cancelling
removeTaskNoCancel(id) ==
    /\ mu = "free"
    /\ IF id \notin DOMAIN tasks
       THEN /\ ret' = Ret("removeTask", "TaskNotFound")
            /\ UNCHANGED <<tasks, runners, execs>>
       ELSE LET ts == [i \in DOMAIN tasks \ {id} |-> tasks[i]]
            IN /\ tasks' = ts
               /\ runners' = Collect(runners, ts, loops)
               /\ execs' = Orphan(execs, Gone(runners, ts, loops))
               /\ ret' = Ret("removeTask", "nil")
    /\ UNCHANGED <<running, mu, loops>>
    /\ UNCHANGED <<parserVars, legacyVars, cronVars, monitorVars>>

\* a variant of removeTask that removes some other task when the ID is unknown
removeTaskAny(id) ==
    /\ mu = "free"
    /\ LET victim == IF id \in DOMAIN tasks \/ tasks = <<>>
                     THEN id
                     ELSE CHOOSE i \in DOMAIN tasks : TRUE
       IN IF victim \notin DOMAIN tasks
          THEN /\ ret' = Ret("removeTask", "TaskNotFound")
               /\ UNCHANGED <<tasks, runners, execs>>
          ELSE LET r == tasks[victim]
                   ts == [i \in DOMAIN tasks \ {victim} |-> tasks[i]]
                   es == CancelExecsOf(execs, {r})
               IN /\ tasks' = ts
                  /\ execs' = Orphan(es, Gone(runners, ts, loops))
                  /\ runners' = Collect(CancelRunner(runners, r), ts, loops)
                  /\ ret' = Ret("removeTask", "nil")
    /\ UNCHANGED <<running, mu, loops>>
    /\ UNCHANGED <<parserVars, legacyVars, cronVars, monitorVars>>

\* scheduler.removeTask
removeTask(id) ==
    /\ mu = "free"
    /\ IF id \notin DOMAIN tasks
       THEN /\ ret' = Ret("removeTask", "TaskNotFound")
            /\ UNCHANGED <<tasks, runners, execs>>
       ELSE LET r == tasks[id]
                ts == [i \in DOMAIN tasks \ {id} |-> tasks[i]]
                es == CancelExecsOf(execs, {r})
            IN /\ tasks' = ts
               /\ execs' = Orphan(es, Gone(runners, ts, loops))
               /\ runners' = Collect(CancelRunner(runners, r), ts, loops)
               /\ ret' = Ret("removeTask", "nil")
    /\ UNCHANGED <<running, mu, loops>>
    /\ UNCHANGED <<parserVars, legacyVars, cronVars, monitorVars>>

\* a variant of start that does not look at the running flag
startNoCheck ==
    /\ mu = "free"
    /\ running' = TRUE
    /\ loops' = [r \in Runners |-> IF Registered(r) THEN "wait" ELSE loops[r]]
    /\ ret' = Ret("start", "nil")
    /\ UNCHANGED <<tasks, mu, runners, execs>>
    /\ UNCHANGED <<parserVars, legacyVars, cronVars, monitorVars>>

\* scheduler.start
start ==
    /\ mu = "free"
    /\ IF running
       THEN /\ ret' = Ret("start", "AlreadyRunning")
            /\ UNCHANGED <<running, loops>>
       ELSE /\ running' = TRUE
            /\ loops' = [r \in Runners |-> IF Registered(r) THEN "wait" ELSE loops[r]]
            /\ ret' = Ret("start", "nil")
    /\ UNCHANGED <<tasks, mu, runners, execs>>
    /\ UNCHANGED <<parserVars, legacyVars, cronVars, monitorVars>>

\* scheduler.stop up to wg.Wait: clears the flag and cancels s.ctx, which is
\* the parent of every runner context, and keeps s.mu
stop ==
    /\ mu = "free"
    /\ IF running
       THEN /\ running' = FALSE
            /\ mu' = "stop"
            /\ runners' = [r \in Runners |->
                              IF runners[r] = NoRunner THEN NoRunner
                              ELSE [runners[r] EXCEPT !.ctx = TRUE]]
            /\ execs' = CancelExecsOf(execs, Runners)
            /\ UNCHANGED ret
       ELSE /\ ret' = Ret("stop", "notRunning")
            /\ UNCHANGED <<running, mu, runners, execs>>
    /\ UNCHANGED <<tasks, loops>>
    /\ UNCHANGED <<parserVars, legacyVars, cronVars, monitorVars>>

\* stop() left the cancelled contexts in place (no rebuild)
RebuiltNot(rs) == rs

\* the runner contexts and next-run times stop() rebuilds after wg.Wait; the
\* new contexts are children of the root context
Rebuilt(rs) ==
    [r \in Runners |->
        IF Registered(r)
        THEN [rs[r] EXCEPT !.ctx = rootCtx = "done",
                           !.nextRun = ScheduleNext(rs[r].schedule, Now)]
        ELSE rs[r]]

\* a wait that counts only the loops of the runners still in the map
WaitGroupDoneRegistered == \A r \in Runners : Registered(r) => loops[r] = "none"

\* wg.Wait returns once every loop has called wg.Done
WaitGroupDone == \A r \in Runners : loops[r] = "none"

\* scheduler.stop from wg.Wait on: rebuilds the contexts and returns
stopReturn ==
    /\ mu # "free"
    /\ WaitGroupDone
    /\ runners' = Rebuilt(runners)
    /\ mu' = "free"
    /\ ret' = IF mu = "stop" THEN Ret("stop", "nil") ELSE ret
    /\ UNCHANGED <<tasks, running, loops, execs>>
    /\ UNCHANGED <<parserVars, legacyVars, cronVars, monitorVars>>

\* scheduler.listTasks
listTasks == DOMAIN tasks

\* scheduler.nextRun: the value and the error it returns
nextRun(id) ==
    IF id \in DOMAIN tasks
    THEN [val |-> runners[tasks[id]].nextRun, err |-> "nil"]
    ELSE [val |-> 0, err |-> "TaskNotFound"]

\* a call of scheduler.nextRun (a read under s.mu.RLock)
nextRunCall(id) ==
    /\ mu = "free"
    /\ ret' = Ret("nextRun", nextRun(id).err)
    /\ UNCHANGED <<tasks, running, mu, runners, loops, execs>>
    /\ UNCHANGED <<parserVars, legacyVars, cronVars, monitorVars>>

\* ------------------------------------------------------ the per-task loop
\* runTask, case <-runner.ctx.Done(): the loop returns (wg.Done)
runTaskDone(r) ==
    /\ loops[r] = "wait"
    /\ runners[r].ctx
    /\ loops' = [loops EXCEPT ![r] = "none"]
    /\ runners' = Collect(runners, tasks, loops')
    /\ execs' = Orphan(execs, Gone(runners, tasks, loops'))
    /\ UNCHANGED <<tasks, running, mu, ret>>
    /\ UNCHANGED <<parserVars, legacyVars, cronVars, monitorVars>>

\* runTask, case <-time.After(time.Until(runner.nextRun)): the trigger
runTaskTimer(r) ==
    /\ loops[r] = "wait"
    /\ runners[r].nextRun <= Now
    /\ loops' = [loops EXCEPT ![r] = "trigger"]
    /\ UNCHANGED <<tasks, running, mu, runners, execs, ret>>
    /\ UNCHANGED <<parserVars, legacyVars, cronVars, monitorVars>>

\* an admission that takes MaxConcurrent = 0 for a semaphore of capacity 0
AdmittedNilSemaphore(runner) ==
    runner.semaphore < runner.task.Options.MaxConcurrent

\* an admission that never rejects
AdmittedAlways(runner) == TRUE

\* executeTask's admission: unlimited for MaxConcurrent = 0, otherwise a
\* non-blocking send on the semaphore channel of capacity MaxConcurrent
Admitted(runner) ==
    \/ runner.task.Options.MaxConcurrent = 0
    \/ runner.semaphore < runner.task.Options.MaxConcurrent

\* The execution executeTask dispatches for runner r.  Async: go run(), which
\* has not begun.  Sync: run() is called in the loop's goroutine, so execCtx
\* is derived from runner.ctx and the job body is started at once.  ctx is
\* the Done state of execCtx: cancelled from above, or past its deadline.
\* id, slot, async and timed are what the closure knows of the task;
\* exceeded tells that the context is Done because its deadline passed
\* (ctx.Err() is DeadlineExceeded).
NewExec(r) ==
    [ r     |-> r,
      id    |-> runners[r].task.ID,
      pc    |-> IF runners[r].task.Options.Async THEN "start" ELSE "select",
      body  |-> IF runners[r].task.Options.Async THEN "none" ELSE "running",
      ctx   |-> IF runners[r].task.Options.Async THEN FALSE ELSE runners[r].ctx,
      slot  |-> runners[r].task.Options.MaxConcurrent > 0,
      async |-> runners[r].task.Options.Async,
      timed |-> runners[r].task.Options.Timeout > 0,
      exceeded |-> FALSE ]

\* the statistics of the ID have room for one more invocation
RunsLeft(id) ==
    LET Reports(x) == x.id = id /\ x.pc # "done"
    IN monitor.on /\ id \in DOMAIN monitor.stats
          => monitor.stats[id].RunCount + CountOf(execs, Reports) < MaxRuns

\* executeTask called by the loop, and for a rejected or an async trigger the
\* next-run time runTask sets after it.  A sync loop stays inside executeTask
\* until the pipeline returns.
executeTask(r) ==
    /\ loops[r] = "trigger"
    /\ IF Admitted(runners[r])
       THEN /\ BagCardinality(execs) < MaxExec
            /\ RunsLeft(runners[r].task.ID)
            /\ execs' = execs (+) SetToBag({NewExec(r)})
            /\ monitor' = IF runners[r].task.Options.Async THEN monitor
                          ELSE setRunning(monitor, runners[r].task.ID, TRUE)
            /\ runners' = [runners EXCEPT
                   ![r].semaphore = IF runners[r].task.Options.MaxConcurrent > 0
                                    THEN @ + 1 ELSE @,
                   ![r].nextRun = IF runners[r].task.Options.Async
                                  THEN ScheduleNext(runners[r].schedule, Now)
                                  ELSE @]
            /\ loops' = [loops EXCEPT
                   ![r] = IF runners[r].task.Options.Async THEN "wait" ELSE "exec"]
       ELSE /\ runners' = [runners EXCEPT
                   ![r].nextRun = ScheduleNext(runners[r].schedule, Now)]
            /\ loops' = [loops EXCEPT ![r] = "wait"]
            /\ UNCHANGED <<execs, monitor>>
    /\ UNCHANGED <<tasks, running, mu, ret>>
    /\ UNCHANGED <<parserVars, legacyVars, cronVars, handled>>

\* ------------------------------------------------- the execution pipeline
\* an async run() begins: execCtx is derived from runner.ctx as it is now,
\* and executeTaskJob (which tells the Monitor) and executeHandler start the
\* goroutine that calls the job
run(x) ==
    /\ x.pc = "start"
    /\ execs' = Replace(execs, x, [x EXCEPT !.pc = "select",
                                            !.ctx = IF x.r = 0 THEN TRUE
                                                    ELSE runners[x.r].ctx,
                                            !.body = "running"])
    /\ monitor' = setRunning(monitor, x.id, TRUE)
    /\ UNCHANGED <<tasks, running, mu, runners, loops, ret>>
    /\ UNCHANGED <<parserVars, legacyVars, cronVars, handled>>

\* the deadline of context.WithTimeout(execCtx, Timeout) passes: execCtx is Done
deadline(x) ==
    /\ x.pc = "select"
    /\ x.timed
    /\ ~x.ctx
    /\ execs' = Replace(execs, x, [x EXCEPT !.ctx = TRUE, !.exceeded = TRUE])
    /\ UNCHANGED <<tasks, running, mu, runners, loops, ret>>
    /\ UNCHANGED <<parserVars, legacyVars, cronVars, monitorVars>>

\* the job body finishes with `how`; its execution record goes once the
\* pipeline is gone too
BodyEnds(x, how) ==
    LET es == IF x.pc = "done"
              THEN Without(execs, x)
              ELSE Replace(execs, x, [x EXCEPT !.body = how])
    IN execs' = es

\* the job body returns: done <- err
handlerReturn(x) ==
    /\ x.body = "running"
    /\ BodyEnds(x, "returned")
    /\ UNCHANGED <<tasks, running, mu, runners, loops, ret>>
    /\ UNCHANGED <<parserVars, legacyVars, cronVars, monitorVars>>

\* a panic that is not recovered: the process, and every loop with it, ends
handlerPanicCrash(x) ==
    /\ x.body = "running"
    /\ execs' = Replace(execs, x, [x EXCEPT !.body = "panicked"])
    /\ loops' = [r \in Runners |-> "none"]
    /\ UNCHANGED <<tasks, running, mu, runners, ret>>
    /\ UNCHANGED <<parserVars, legacyVars, cronVars, monitorVars>>

\* the job body panics: SafeCall recovers, calls the PanicHandler, done <- err
handlerPanic(x) ==
    /\ x.body = "running"
    /\ handled.on => handled.calls[x.id] < MaxPanics
    /\ BodyEnds(x, "panicked")
    /\ handled' = HandlePanic(handled, x.id)
    /\ UNCHANGED <<tasks, running, mu, runners, loops, ret>>
    /\ UNCHANGED <<parserVars, legacyVars, cronVars, monitor>>

\* a variant of the select of executeHandler that waits for the body alone
SelectReadyDoneOnly(x) == x.body \in {"returned", "panicked"}

\* executeHandler's select can return: the body is done or ctx is Done
SelectReady(x) == x.body \in {"returned", "panicked"} \/ x.ctx

\* what executeHandler can return: true when the select takes done with a
\* nil error, false when it takes done with the error of a panic or ctx.Done
Outcomes(x) ==
    {x.body = "returned"} \cup (IF x.ctx THEN {FALSE} ELSE {})

\* a variant of the pipeline's return in which run() does not defer release()
executeHandlerNoRelease(x) ==
    /\ x.pc = "select"
    /\ SelectReady(x)
    /\ execs' = IF x.body = "running" /\ x.r # 0
                THEN Replace(execs, x, [x EXCEPT !.pc = "done"])
                ELSE Without(execs, x)
    /\ IF x.r = 0
       THEN UNCHANGED <<runners, loops>>
       ELSE /\ runners' = [runners EXCEPT
                   ![x.r].nextRun = IF x.async THEN @
                                    ELSE ScheduleNext(runners[x.r].schedule, Now)]
            /\ loops' = IF x.async THEN loops ELSE [loops EXCEPT ![x.r] = "wait"]
    /\ \E success \in Outcomes(x) :
          monitor' = setRunning(recordExecution(monitor, x.id, success),
                                x.id, FALSE)
    /\ UNCHANGED <<tasks, running, mu, ret>>
    /\ UNCHANGED <<parserVars, legacyVars, cronVars, handled>>

\* executeHandler's select returns, executeTaskJob returns (its deferred
\* function reports to the Monitor) and run()'s deferred calls run: cancel()
\* and release().  A sync loop is back in runTask and sets the next-run time.
executeHandler(x) ==
    /\ x.pc = "select"
    /\ SelectReady(x)
    /\ execs' = IF x.body = "running" /\ x.r # 0
                THEN Replace(execs, x, [x EXCEPT !.pc = "done"])
                ELSE Without(execs, x)
    /\ IF x.r = 0
       THEN UNCHANGED <<runners, loops>>
       ELSE /\ runners' = [runners EXCEPT
                   ![x.r].semaphore = IF x.slot THEN @ - 1 ELSE @,
                   ![x.r].nextRun = IF x.async THEN @
                                    ELSE ScheduleNext(runners[x.r].schedule, Now)]
            /\ loops' = IF x.async THEN loops ELSE [loops EXCEPT ![x.r] = "wait"]
    /\ \E success \in Outcomes(x) :
          monitor' = setRunning(recordExecution(monitor, x.id, success),
                                x.id, FALSE)
    /\ UNCHANGED <<tasks, running, mu, ret>>
    /\ UNCHANGED <<parserVars, legacyVars, cronVars, handled>>

\* a goroutine is ready to run: a loop whose select has a ready case or that
\* is about to call executeTask, an async run() not yet begun, a pipeline
\* whose select can return, stop() inside wg.Wait, a contextWatcher whose
\* context is Done
Urgent ==
    \/ \E r \in Runners : loops[r] = "trigger"
    \/ \E r \in Runners :
          loops[r] = "wait" /\ (runners[r].ctx \/ runners[r].nextRun <= Now)
    \/ \E x \in BagToSet(execs) : x.pc = "start"
    \/ \E x \in BagToSet(execs) : x.pc = "select" /\ SelectReady(x)
    \/ mu # "free"
    \/ watchers > 0 /\ rootCtx = "done"

\* one unit of time passes: every next-run time still ahead comes closer
Tick ==
    /\ ~Urgent
    /\ \E r \in Runners : runners[r] # NoRunner /\ runners[r].nextRun > Now
    /\ runners' = [r \in Runners |->
                      IF runners[r] # NoRunner /\ runners[r].nextRun > Now
                      THEN [runners[r] EXCEPT !.nextRun = @ - 1]
                      ELSE runners[r]]
    /\ UNCHANGED <<tasks, running, mu, loops, execs, ret>>
    /\ UNCHANGED <<parserVars, legacyVars, cronVars, monitorVars>>

\* ---------------------------------------------------------- specification
\* the calls of the scheduler's API with the tasks of `inputs`
API(inputs) ==
    \/ \E task \in inputs : addTask(task)
    \/ \E task \in inputs : removeTask(task.ID)
    \/ \E task \in inputs : nextRunCall(task.ID)
    \/ start
    \/ stop

\* the steps of the scheduler's goroutines and of the job bodies, and time
Go ==
    \/ stopReturn
    \/ \E r \in Runners : runTaskDone(r)
    \/ \E r \in Runners : runTaskTimer(r)
    \/ \E r \in Runners : executeTask(r)
    \/ \E x \in BagToSet(execs) : run(x)
    \/ \E x \in BagToSet(execs) : deadline(x)
    \/ \E x \in BagToSet(execs) : handlerReturn(x)
    \/ \E x \in BagToSet(execs) : handlerPanic(x)
    \/ \E x \in BagToSet(execs) : executeHandler(x)
    \/ Tick

\* one task ID, registered, removed and registered again with any options
OneTask == {task \in TaskInputs : task.ID = "a"}

Next == API(OneTask) \/ Go

Spec == Init /\ [][Next]_vars

\* two task IDs side by side: "a" a sync task with a timeout and one slot,
\* "b" an async task without a timeout or a limit
TwoTasks ==
    {task \in TaskInputs :
        \/ /\ task.ID = "a"
           /\ task.Options = [Timeout |-> 1, Async |-> FALSE, MaxConcurrent |-> 1]
        \/ /\ task.ID = "b"
           /\ task.Options = [Timeout |-> 0, Async |-> TRUE, MaxConcurrent |-> 0]}

NextTwo == API(TwoTasks) \/ Go

SpecTwo == Init /\ [][NextTwo]_vars

\* The Go scheduler runs every goroutine that can run: the loops, the
\* pipelines and stop() take their steps, and time passes.  Job bodies are
\* taken to end (they return or panic).  The API callers make finitely many
\* calls: without that they can keep some goroutine ready for ever, and no
\* time passes in the model while one is (Tick waits).
Fairness ==
    /\ WF_vars(stopReturn)
    /\ \A r \in Runners : WF_vars(runTaskDone(r))
    /\ \A r \in Runners : WF_vars(runTaskTimer(r))
    /\ \A r \in Runners : WF_vars(executeTask(r))
    /\ WF_vars(\E x \in BagToSet(execs) : run(x))
    /\ WF_vars(\E x \in BagToSet(execs) : executeHandler(x))
    /\ WF_vars(\E x \in BagToSet(execs) : handlerReturn(x) \/ handlerPanic(x))
    /\ WF_vars(Tick)
    /\ <>[][Go]_vars

FairSpec == Spec /\ Fairness

FairSpecTwo == SpecTwo /\ Fairness

\* The Go scheduler runs the goroutines of the scheduler that can run: the
\* loops, the pipelines and stop().  Nothing is taken of the job bodies (they
\* need never end) nor of time.
FairnessStop ==
    /\ WF_vars(stopReturn)
    /\ \A r \in Runners : WF_vars(runTaskDone(r))
    /\ \A r \in Runners : WF_vars(executeTask(r))
    /\ WF_vars(\E x \in BagToSet(execs) : run(x))
    /\ WF_vars(\E x \in BagToSet(execs) : executeHandler(x))

FairSpecStop == Spec /\ FairnessStop

\* one task ID whose schedule is a delay of one period or the expression
\* that no date satisfies
NeverTasks ==
    [ID : {"a"},
     Schedule : {[name |-> "@every", dur |-> 1], Feb30},
     Options : {[Timeout |-> 1, Async |-> FALSE, MaxConcurrent |-> 1],
                [Timeout |-> 0, Async |-> TRUE, MaxConcurrent |-> 0]}]

NextNever == API(NeverTasks) \/ Go

SpecNever == Init /\ [][NextNever]_vars

\* ---------------------------------------------------------- root context
\* The root context given through WithContext is cancelled by its owner:
\* every context derived from it is Done (s.ctx, the runner contexts and the
\* execution contexts).
cancelRoot ==
    /\ rootCtx = "live"
    /\ rootCtx' = "done"
    /\ runners' = [r \in Runners |->
                      IF runners[r] = NoRunner THEN NoRunner
                      ELSE [runners[r] EXCEPT !.ctx = TRUE]]
    /\ execs' = CancelExecsOf(execs, Runners)
    /\ UNCHANGED <<tasks, running, mu, loops, ret, watchers>>
    /\ UNCHANGED <<parserVars, legacyVars, monitorVars>>

\* Cron.Start: scheduler.start, and a contextWatcher goroutine, which
\* returns at once when the root context cannot be cancelled
Start ==
    /\ mu = "free"
    /\ IF running
       THEN /\ ret' = Ret("start", "AlreadyRunning")
            /\ UNCHANGED <<running, loops, watchers>>
       ELSE /\ rootCtx # "background" => watchers < MaxWatchers
            /\ running' = TRUE
            /\ loops' = [r \in Runners |-> IF Registered(r) THEN "wait" ELSE loops[r]]
            /\ ret' = Ret("start", "nil")
            /\ watchers' = IF rootCtx = "background" THEN watchers
                           ELSE watchers + 1
    /\ UNCHANGED <<tasks, mu, runners, execs, rootCtx>>
    /\ UNCHANGED <<parserVars, legacyVars, monitorVars>>

\* a variant of contextWatcher that returns without calling Stop
contextWatcherReturns ==
    /\ watchers > 0
    /\ rootCtx = "done"
    /\ watchers' = watchers - 1
    /\ UNCHANGED <<schedulerVars, rootCtx>>
    /\ UNCHANGED <<parserVars, legacyVars, monitorVars>>

\* Cron.contextWatcher after <-done: it calls Cron.Stop, which returns at
\* once when the Cron is not running and else goes into scheduler.stop
contextWatcher ==
    /\ watchers > 0
    /\ rootCtx = "done"
    /\ mu = "free"
    /\ watchers' = watchers - 1
    /\ IF running
       THEN /\ running' = FALSE
            /\ mu' = "watcher"
            /\ runners' = [r \in Runners |->
                              IF runners[r] = NoRunner THEN NoRunner
                              ELSE [runners[r] EXCEPT !.ctx = TRUE]]
            /\ execs' = CancelExecsOf(execs, Runners)
       ELSE UNCHANGED <<running, mu, runners, execs>>
    /\ UNCHANGED <<tasks, loops, ret, rootCtx>>
    /\ UNCHANGED <<parserVars, legacyVars, monitorVars>>

\* a Cron made with WithContext(ctx), ctx not yet cancelled; the Monitor
\* takes no part in scheduling and is left out
InitRoot ==
    /\ InitState
    /\ rootCtx = "live"
    /\ watchers = 0
    /\ monitor = [on |-> FALSE, stats |-> <<>>]
    /\ handled = [on |-> FALSE, calls |-> [id \in IDs |-> 0]]
    /\ nx = NoCall

\* the calls of the Cron's API, the goroutines, and the owner of the root
\* context
NextRoot ==
    \/ \E task \in OneTask : addTask(task)
    \/ \E task \in OneTask : removeTask(task.ID)
    \/ Start
    \/ stop
    \/ cancelRoot
    \/ contextWatcher
    \/ Go

SpecRoot == InitRoot /\ [][NextRoot]_vars

\* as Fairness, with the watcher among the goroutines that run
FairnessRoot ==
    /\ WF_vars(stopReturn)
    /\ \A r \in Runners : WF_vars(runTaskDone(r))
    /\ \A r \in Runners : WF_vars(runTaskTimer(r))
    /\ \A r \in Runners : WF_vars(executeTask(r))
    /\ WF_vars(\E x \in BagToSet(execs) : run(x))
    /\ WF_vars(\E x \in BagToSet(execs) : executeHandler(x))
    /\ WF_vars(\E x \in BagToSet(execs) : handlerReturn(x) \/ handlerPanic(x))
    /\ WF_vars(Tick)
    /\ WF_vars(contextWatcher)
    /\ <>[][Go \/ contextWatcher]_vars

FairSpecRoot == SpecRoot /\ FairnessRoot

\* the same Cron with the two tasks of TwoTasks
NextRootTwo ==
    \/ \E task \in TwoTasks : addTask(task)
    \/ \E task \in TwoTasks : removeTask(task.ID)
    \/ Start
    \/ stop
    \/ cancelRoot
    \/ contextWatcher
    \/ Go

SpecRootTwo == InitRoot /\ [][NextRootTwo]_vars

\* ------------------------------------------------- Cron with its Monitor
\* Cron.ScheduleJob (Cron.Schedule is the same with a Handler): under c.mu
\* the task is added to the Monitor first and then handed to
\* scheduler.addTask, whose error is returned
ScheduleJob(task) ==
    /\ mu = "free"
    /\ monitor' = monitorAddTask(monitor, task.ID)
    /\ IF task.ID \in DOMAIN tasks
       THEN /\ ret' = Ret("addTask", "DuplicateTask")
            /\ UNCHANGED <<tasks, runners, loops>>
       ELSE LET p == parseNoCache(task.Schedule)
            IN IF p.err
               THEN /\ ret' = Ret("addTask", "InvalidSpecification")
                    /\ UNCHANGED <<tasks, runners, loops>>
               ELSE /\ FreeRunners # {}
                    /\ LET r == LowestOf(FreeRunners)
                       IN /\ tasks' = [id \in DOMAIN tasks \cup {task.ID} |->
                                          IF id = task.ID THEN r ELSE tasks[id]]
                          /\ runners' = [runners EXCEPT
                                 ![r] = NewRunner(task, p.schedule)]
                          /\ loops' = IF running
                                      THEN [loops EXCEPT ![r] = "wait"]
                                      ELSE loops
                    /\ ret' = Ret("addTask", "nil")
    /\ UNCHANGED <<running, mu, execs>>
    /\ UNCHANGED <<parserVars, legacyVars, cronVars, handled>>

\* Cron.Remove: under c.mu the task is removed from the Monitor and then
\* handed to scheduler.removeTask
Remove(id) ==
    /\ mu = "free"
    /\ monitor' = monitorRemoveTask(monitor, id)
    /\ IF id \notin DOMAIN tasks
       THEN /\ ret' = Ret("removeTask", "TaskNotFound")
            /\ UNCHANGED <<tasks, runners, execs>>
       ELSE LET r == tasks[id]
                ts == [i \in DOMAIN tasks \ {id} |-> tasks[i]]
                es == CancelExecsOf(execs, {r})
            IN /\ tasks' = ts
               /\ execs' = Orphan(es, Gone(runners, ts, loops))
               /\ runners' = Collect(CancelRunner(runners, r), ts, loops)
               /\ ret' = Ret("removeTask", "nil")
    /\ UNCHANGED <<running, mu, loops>>
    /\ UNCHANGED <<parserVars, legacyVars, cronVars, handled>>

\* a Cron made by New with the default root context: the Monitor is enabled
\* and a PanicHandler is configured
InitMonitor ==
    /\ InitState
    /\ rootCtx = "background"
    /\ watchers = 0
    /\ monitor = [on |-> TRUE, stats |-> <<>>]
    /\ handled = [on |-> TRUE, calls |-> [id \in IDs |-> 0]]
    /\ nx = NoCall

NextMonitor ==
    \/ \E task \in OneTask : ScheduleJob(task)
    \/ \E task \in OneTask : Remove(task.ID)
    \/ Start
    \/ stop
    \/ Go

SpecMonitor == InitMonitor /\ [][NextMonitor]_vars

\* ------------------------------------------------------- expression cache
\* The expressions given to parseWithCache: three that parse, one that fails.
CacheExprs == {[name |-> "@every", dur |-> d] : d \in 0..3}


\* The Schedule object a call of parseNoCache allocates: obj tells the
\* objects of different calls apart.
NewSchedule(spec, n) == [obj |-> n, schedule |-> parseNoCache(spec).schedule]

\* seq without its element at position pos
RemoveAt(seq, pos) == SubSeq(seq, 1, pos - 1) \o SubSeq(seq, pos + 1, Len(seq))

\* seq without any occurrence of e
Purge(seq, e) == SelectSeq(seq, LAMBDA k : k # e)

\* parserCache.updateAccessOrder: the first occurrence of spec moves to the
\* end; pos stays at the head when spec does not occur.
updateAccessOrder(order, spec) ==
    LET found == {i \in 1..Len(order) : order[i] = spec}
        pos == IF found = {} THEN 1 ELSE LowestOf(found)
    IN Append(RemoveAt(order, pos), spec)

\* a variant of lookup that sends a miss on to the insert whether or not
\* the expression parses
lookupInsertFailed(c, spec) ==
    /\ callers[c].pc = "idle"
    /\ calls < MaxCalls
    /\ calls' = calls + 1
    /\ callers' =
          [callers EXCEPT ![c] =
              IF spec \in DOMAIN cache
              THEN [pc |-> "hit", spec |-> spec, schedule |-> cache[spec],
                    result |-> callers[c].result]
              ELSE [pc |-> "miss", spec |-> spec,
                    schedule |-> IF parseNoCache(spec).err THEN NoSchedule
                                 ELSE NewSchedule(spec, calls'),
                    result |-> callers[c].result]]
    /\ UNCHANGED <<cache, accessOrder, lru, evictions>>
    /\ UNCHANGED <<schedulerVars, cronVars, monitorVars, legacyVars, nx>>

\* parseWithCache up to the release of the read lock, and on a miss the
\* parse that follows: a hit goes on to the promotion with the schedule it
\* read, a miss that parses goes on to the insert, a miss that fails to parse
\* returns the error.
lookup(c, spec) ==
    /\ callers[c].pc = "idle"
    /\ calls < MaxCalls
    /\ calls' = calls + 1
    /\ callers' =
          [callers EXCEPT ![c] =
              IF spec \in DOMAIN cache
              THEN [pc |-> "hit", spec |-> spec, schedule |-> cache[spec],
                    result |-> callers[c].result]
              ELSE IF parseNoCache(spec).err
              THEN Idle(Result(spec, TRUE, NoSchedule, evictions))
              ELSE [pc |-> "miss", spec |-> spec,
                    schedule |-> NewSchedule(spec, calls'),
                    result |-> callers[c].result]]
    /\ UNCHANGED <<cache, accessOrder, lru, evictions>>
    /\ UNCHANGED <<schedulerVars, cronVars, monitorVars, legacyVars, nx>>

\* a variant of promote without the second look at the map
promoteNoRecheck(c) ==
    /\ callers[c].pc = "hit"
    /\ accessOrder' = updateAccessOrder(accessOrder, callers[c].spec)
    /\ lru' = Append(Purge(lru, callers[c].spec), callers[c].spec)
    /\ callers' = [callers EXCEPT ![c] =
          Idle(Result(callers[c].spec, FALSE, callers[c].schedule, evictions))]
    /\ UNCHANGED <<cache, calls, evictions>>
    /\ UNCHANGED <<schedulerVars, cronVars, monitorVars, legacyVars, nx>>

\* parseWithCache after a hit, under the write lock: the expression moves to
\* the end of accessOrder if it is still cached, and the schedule read under
\* the read lock is returned.
promote(c) ==
    /\ callers[c].pc = "hit"
    /\ IF callers[c].spec \in DOMAIN cache
       THEN /\ accessOrder' = updateAccessOrder(accessOrder, callers[c].spec)
            /\ lru' = Append(Purge(lru, callers[c].spec), callers[c].spec)
       ELSE UNCHANGED <<accessOrder, lru>>
    /\ callers' = [callers EXCEPT ![c] =
          Idle(Result(callers[c].spec, FALSE, callers[c].schedule, evictions))]
    /\ UNCHANGED <<cache, calls, evictions>>
    /\ UNCHANGED <<schedulerVars, cronVars, monitorVars, legacyVars, nx>>

\* the insert finds the map full
Full == Cardinality(DOMAIN cache) >= Capacity

\* the expression the insert deletes from the map: accessOrder[0]
Oldest == Head(accessOrder)

\* a variant of insert that never evicts
insertNoEvict(c) ==
    /\ callers[c].pc = "miss"
    /\ cache' = [k \in DOMAIN cache \cup {callers[c].spec} |->
                    IF k = callers[c].spec THEN callers[c].schedule
                    ELSE cache[k]]
    /\ accessOrder' = Append(accessOrder, callers[c].spec)
    /\ lru' = Append(Purge(lru, callers[c].spec), callers[c].spec)
    /\ callers' = [callers EXCEPT ![c] =
          Idle(Result(callers[c].spec, FALSE, callers[c].schedule, evictions))]
    /\ UNCHANGED <<calls, evictions>>
    /\ UNCHANGED <<schedulerVars, cronVars, monitorVars, legacyVars, nx>>

\* parseWithCache after a miss, under the write lock: with the map full the
\* head of accessOrder is deleted from the map and dropped from the list;
\* then the parsed schedule is stored and its expression appended.
insert(c) ==
    /\ callers[c].pc = "miss"
    /\ Full => accessOrder # <<>>
    /\ LET spec == callers[c].spec
           kept == IF Full THEN DOMAIN cache \ {Oldest} ELSE DOMAIN cache
           order == IF Full THEN Tail(accessOrder) ELSE accessOrder
           used == IF Full THEN Purge(lru, Oldest) ELSE lru
       IN /\ cache' = [k \in kept \cup {spec} |->
                          IF k = spec THEN callers[c].schedule ELSE cache[k]]
          /\ accessOrder' = Append(order, spec)
          /\ lru' = Append(Purge(used, spec), spec)
    /\ evictions' = IF Full THEN evictions + 1 ELSE evictions
    /\ callers' = [callers EXCEPT ![c] =
          Idle(Result(callers[c].spec, FALSE, callers[c].schedule, evictions'))]
    /\ UNCHANGED calls
    /\ UNCHANGED <<schedulerVars, cronVars, monitorVars, legacyVars, nx>>

\* the callers of parseWithCache, each at its own pace
NextCache ==
    \/ \E c \in Callers, spec \in CacheExprs : lookup(c, spec)
    \/ \E c \in Callers : promote(c)
    \/ \E c \in Callers : insert(c)

SpecCache == Init /\ [][NextCache]_vars

\* ------------------------------------------------------ SpecSchedule.Next
\* A field of a SpecSchedule is the set of the bits that are set in it;
\* bit StarBit is set when the expression had a star.
StarBit == 63

\* the search of Next ends before the year t.Year() + YearLimit
YearLimit == 4

\* The calendar of package time.  A clock reading is the number of seconds
\* from the start of year 0 to a date and time of day; a long month has
\* MaxDom days, and every other month is a day shorter.
SecondsPerHour == SecondsPerMinute * MinutesPerHour
SecondsPerDay == SecondsPerHour * HoursPerDay

DaysIn(month) == IF month % 2 = 0 THEN MaxDom - 1 ELSE MaxDom

RECURSIVE DaysBefore(_)
DaysBefore(month) ==
    IF month <= 1 THEN 0 ELSE DaysBefore(month - 1) + DaysIn(month - 1)

DaysPerYear == DaysBefore(MonthsPerYear + 1)

\* the date and time of day of a clock reading w
Days(w) == w \div SecondsPerDay
Year(w) == Days(w) \div DaysPerYear
YearDay(w) == Days(w) % DaysPerYear
Month(w) ==
    CHOOSE m \in 1..MonthsPerYear :
        DaysBefore(m) <= YearDay(w) /\ YearDay(w) < DaysBefore(m + 1)
Day(w) == YearDay(w) - DaysBefore(Month(w)) + 1
Hour(w) == (w % SecondsPerDay) \div SecondsPerHour
Minute(w) == (w % SecondsPerHour) \div SecondsPerMinute
Second(w) == w % SecondsPerMinute
Weekday(w) == Days(w) % DaysPerWeek

\* the clock reading of a date and time of day; a day past the end of the
\* month runs into the next month, as time.Date normalises it
Clock(year, month, day, hour, min, sec) ==
    (year * DaysPerYear + DaysBefore(month) + day - 1) * SecondsPerDay
        + hour * SecondsPerHour + min * SecondsPerMinute + sec

\* A time.Time is an instant (the UTC clock reading, unix) and a location.
\* Location "Zone" is a zone west of Greenwich with daylight saving time:
\* an hour behind UTC in summer, two hours in winter, and summer ends when
\* the zone's clock reaches hour 2 of day 2 of month 1 of year 1 (the clock
\* is set back to hour 1).
Locations == {"UTC", "Zone"}

Transition == Clock(1, 1, 2, 2, 0, 0) + SecondsPerHour

Summer(unix) == unix < Transition

\* Location.lookup: the offset of the location's clock from UTC at an instant
Offset(loc, unix) ==
    IF loc = "UTC" THEN 0
    ELSE IF Summer(unix) THEN 0 - SecondsPerHour
    ELSE 0 - 2 * SecondsPerHour

\* the reading of the location's clock at an instant
Wall(loc, unix) == unix + Offset(loc, unix)

\* time.Date: the instant at which the location's clock reads the given date
\* and time.  The offset is looked up as if the reading were UTC and looked
\* up again when the instant so found lies in the other period of the zone;
\* a reading the clock shows twice gives one of the two instants.
Date(loc, year, month, day, hour, min, sec) ==
    LET unix == Clock(year, month, day, hour, min, sec)
        offset == Offset(loc, unix)
        utc == unix - offset
    IN IF offset = 0 THEN unix
       ELSE IF Summer(utc) # Summer(unix) THEN unix - Offset(loc, utc)
       ELSE utc

\* the fields of the expressions: a star or one value
Field(min, max) == {(min..max) \cup {StarBit}} \cup {{v} : v \in min..max}

SpecSchedules ==
    [ Second : Field(0, SecondsPerMinute - 1),
      Minute : Field(0, MinutesPerHour - 1),
      Hour : Field(0, HoursPerDay - 1),
      Dom : Field(1, MaxDom),
      Month : Field(1, MonthsPerYear),
      Dow : Field(0, DaysPerWeek - 1),
      Location : {"nil", "Zone"} ]

\* the arguments of Next: the whole seconds of the first days of year 1, up
\* to the start of the last day of its first month, in UTC
Instants == Clock(1, 1, 1, 0, 0, 0) .. Clock(1, 1, MaxDom, 0, 0, 0)

\* a variant of dayMatches that wants both fields to match in every case
dayMatchesBoth(s, w) == Day(w) \in s.Dom /\ Weekday(w) \in s.Dow

\* dayMatches
dayMatches(s, w) ==
    LET domMatch == Day(w) \in s.Dom
        dowMatch == Weekday(w) \in s.Dow
    IN IF StarBit \in s.Dom \/ StarBit \in s.Dow
       THEN domMatch /\ dowMatch
       ELSE domMatch \/ dowMatch

\* a call of s.Next(t) about to begin
Call(s, t) == [pc |-> "call", s |-> s, arg |-> t, loc |-> "UTC", t |-> t,
               yearLimit |-> 0, zero |-> FALSE]

InitNext == InitState /\ InitScheduler /\ nx \in {Call(s, t) : s \in SpecSchedules, t \in Instants}

\* return t, or the zero time
Return(t) == [nx EXCEPT !.pc = "done", !.t = t]
ReturnZero == [nx EXCEPT !.pc = "done", !.t = 0, !.zero = TRUE]

\* one more round of a loop of Next that has moved t to u: the zero time
\* past the limit, else the same loop again
Again(u) ==
    IF Year(Wall(nx.loc, u)) >= nx.yearLimit THEN ReturnZero
    ELSE [nx EXCEPT !.t = u]

\* Next up to the label WRAP: the next whole second, in the schedule's
\* location if it has one
nextEnter ==
    /\ nx.pc = "call"
    /\ LET loc == IF nx.s.Location # "nil" THEN nx.s.Location ELSE nx.loc
           t == nx.arg + 1
       IN nx' = [nx EXCEPT !.pc = "wrap", !.loc = loc, !.t = t,
                           !.yearLimit = Year(Wall(loc, t)) + YearLimit]
    /\ UNCHANGED <<schedulerVars, cronVars, monitorVars, legacyVars, cacheVars>>

\* the test of the outer loop
nextWrap ==
    /\ nx.pc = "wrap"
    /\ nx' = IF Year(Wall(nx.loc, nx.t)) < nx.yearLimit
             THEN [nx EXCEPT !.pc = "month"]
             ELSE ReturnZero
    /\ UNCHANGED <<schedulerVars, cronVars, monitorVars, legacyVars, cacheVars>>

\* the month loop: one test, and one move to the first day of the next month
nextMonth ==
    /\ nx.pc = "month"
    /\ LET w == Wall(nx.loc, nx.t)
       IN nx' = IF Month(w) \notin nx.s.Month
                THEN IF Month(w) = MonthsPerYear
                     THEN Again(Date(nx.loc, Year(w) + 1, 1, 1, 0, 0, 0))
                     ELSE Again(Date(nx.loc, Year(w), Month(w) + 1, 1, 0, 0, 0))
                ELSE [nx EXCEPT !.pc = "day"]
    /\ UNCHANGED <<schedulerVars, cronVars, monitorVars, legacyVars, cacheVars>>

\* the day loop: one test, and one move to the start of the next day
nextDay ==
    /\ nx.pc = "day"
    /\ LET w == Wall(nx.loc, nx.t)
           added == Wall(nx.loc, Date(nx.loc, Year(w), Month(w), Day(w) + 1,
                                      Hour(w), Minute(w), Second(w)))
           u == Date(nx.loc, Year(added), Month(added), Day(added), 0, 0, 0)
       IN nx' = IF ~dayMatches(nx.s, w)
                THEN IF Day(Wall(nx.loc, u)) = 1
                     THEN [nx EXCEPT !.pc = "wrap", !.t = u]
                     ELSE Again(u)
                ELSE [nx EXCEPT !.pc = "hour"]
    /\ UNCHANGED <<schedulerVars, cronVars, monitorVars, legacyVars, cacheVars>>

\* the hour loop: one test, and one move to the start of the next hour
nextHour ==
    /\ nx.pc = "hour"
    /\ LET w == Wall(nx.loc, nx.t)
           added == Wall(nx.loc, nx.t + SecondsPerHour)
           u == Date(nx.loc, Year(added), Month(added), Day(added),
                     Hour(added), 0, 0)
       IN nx' = IF Hour(w) \notin nx.s.Hour
                THEN IF Hour(Wall(nx.loc, u)) = 0
                     THEN [nx EXCEPT !.pc = "wrap", !.t = u]
                     ELSE Again(u)
                ELSE [nx EXCEPT !.pc = "minute"]
    /\ UNCHANGED <<schedulerVars, cronVars, monitorVars, legacyVars, cacheVars>>

\* the minute loop: one test, and one move to the start of the next minute
nextMinute ==
    /\ nx.pc = "minute"
    /\ LET w == Wall(nx.loc, nx.t)
           added == Wall(nx.loc, nx.t + SecondsPerMinute)
           u == Date(nx.loc, Year(added), Month(added), Day(added),
                     Hour(added), Minute(added), 0)
       IN nx' = IF Minute(w) \notin nx.s.Minute
                THEN IF Minute(Wall(nx.loc, u)) = 0
                     THEN [nx EXCEPT !.pc = "wrap", !.t = u]
                     ELSE Again(u)
                ELSE [nx EXCEPT !.pc = "second"]
    /\ UNCHANGED <<schedulerVars, cronVars, monitorVars, legacyVars, cacheVars>>

\* the second loop: one test, and one move to the next second; a second
\* that matches is the result
nextSecond ==
    /\ nx.pc = "second"
    /\ LET w == Wall(nx.loc, nx.t)
           u == nx.t + 1
       IN nx' = IF Second(w) \notin nx.s.Second
                THEN IF Second(Wall(nx.loc, u)) = 0
                     THEN [nx EXCEPT !.pc = "wrap", !.t = u]
                     ELSE Again(u)
                ELSE Return(nx.t)
    /\ UNCHANGED <<schedulerVars, cronVars, monitorVars, legacyVars, cacheVars>>

\* the steps of one call of Next
NextNext ==
    \/ nextEnter
    \/ nextWrap
    \/ nextMonth
    \/ nextDay
    \/ nextHour
    \/ nextMinute
    \/ nextSecond

SpecNext == InitNext /\ [][NextNext]_vars

\* the schedules that fire every day, at the times of day their second,
\* minute and hour fields give
DailySchedules ==
    {s \in SpecSchedules :
        StarBit \in s.Dom /\ StarBit \in s.Dow /\ StarBit \in s.Month}

InitDaily ==
    InitState /\ InitScheduler /\ nx \in {Call(s, t) : s \in DailySchedules, t \in Instants}

\* the calls of Next on the daily schedules; the goroutine that called Next
\* goes on running
FairSpecDaily == InitDaily /\ [][NextNext]_vars /\ WF_vars(NextNext)

\* ------------------------------------------- the cronScheduler of doc.go
\* A jobModel of the older scheduler, registered as an asynchronous job with
\* maxConcurrent > 0.  Its loop starts one goroutine per trigger, and each
\* goroutine runs runWithTryCatch: gs holds the position of every goroutine
\* ("load" before the test of the counter, "add" after it, "do" while the
\* job's function runs, "ended" after it).

\* the goroutines of the job alive at once, at most
MaxGoroutines == 3

\* the values of maxConcurrent
MaxConcurrents == 1..2

Goroutine(pc) == SetToBag({pc})

GoroutinesAt(pc) == CopiesIn(pc, job.gs)

\* NewJobModel and DynamicRegister (reset with autoStart): the counter
\* starts at 1, the context is a child of the scheduler's, and the loop runs
DynamicRegister(k) ==
    /\ ~job.made
    /\ job' = [made |-> TRUE, maxConcurrent |-> k, running |-> 1,
               loop |-> "select", ctx |-> FALSE, gs |-> EmptyBag]
    /\ UNCHANGED <<schedulerVars, parserVars, cronVars, monitorVars>>

\* jobModel.kill, as UnRegister, StopService and Stop call it once for a
\* registered job: the counter is set to 0 and the context is cancelled
kill ==
    /\ job.made
    /\ ~job.ctx
    /\ job' = [job EXCEPT !.running = 0, !.ctx = TRUE]
    /\ UNCHANGED <<schedulerVars, parserVars, cronVars, monitorVars>>

\* jobModel.run, case <-timer.C of an asynchronous job: go runWithTryCatch()
jobTimer ==
    /\ job.loop = "select"
    /\ job.running > 0
    /\ BagCardinality(job.gs) < MaxGoroutines
    /\ job' = [job EXCEPT !.gs = @ (+) Goroutine("load")]
    /\ UNCHANGED <<schedulerVars, parserVars, cronVars, monitorVars>>

\* jobModel.run returns: case <-j.ctx.Done(), or the counter is not positive
\* at the head of the loop
jobDone ==
    /\ job.loop = "select"
    /\ job.ctx \/ job.running <= 0
    /\ job' = [job EXCEPT !.loop = "none"]
    /\ UNCHANGED <<schedulerVars, parserVars, cronVars, monitorVars>>

\* runWithTryCatch, the test of the counter: the goroutine returns when the
\* counter it loads has reached maxConcurrent
load ==
    /\ GoroutinesAt("load") > 0
    /\ job' = [job EXCEPT !.gs =
                  IF job.running >= job.maxConcurrent
                  THEN @ (-) Goroutine("load")
                  ELSE (@ (-) Goroutine("load")) (+) Goroutine("add")]
    /\ UNCHANGED <<schedulerVars, parserVars, cronVars, monitorVars>>

\* runWithTryCatch, atomic.AddInt32(&j.running, 1), and the goroutine that
\* calls j.do() starts
add ==
    /\ GoroutinesAt("add") > 0
    /\ job' = [job EXCEPT !.running = @ + 1,
                          !.gs = (@ (-) Goroutine("add")) (+) Goroutine("do")]
    /\ UNCHANGED <<schedulerVars, parserVars, cronVars, monitorVars>>

\* j.do() returns or panics: done is closed
do ==
    /\ GoroutinesAt("do") > 0
    /\ job' = [job EXCEPT !.gs = (@ (-) Goroutine("do")) (+) Goroutine("ended")]
    /\ UNCHANGED <<schedulerVars, parserVars, cronVars, monitorVars>>

\* runWithTryCatch returns after <-done: the deferred AddInt32(-1)
runWithTryCatchReturn ==
    /\ GoroutinesAt("ended") > 0
    /\ job' = [job EXCEPT !.running = @ - 1,
                          !.gs = @ (-) Goroutine("ended")]
    /\ UNCHANGED <<schedulerVars, parserVars, cronVars, monitorVars>>

NextLegacy ==
    \/ \E k \in MaxConcurrents : DynamicRegister(k)
    \/ kill
    \/ jobTimer
    \/ jobDone
    \/ load
    \/ add
    \/ do
    \/ runWithTryCatchReturn

SpecLegacy == Init /\ [][NextLegacy]_vars

\* ------------------------------------------------------------------ claims
MaxConcurrentOf(r) == runners[r].task.Options.MaxConcurrent

\* executions of runner r whose job body has not returned: dispatched and
\* not yet begun, or running
BodiesNotReturned(r) ==
    LET Live(x) == x.r = r /\ x.body \in {"none", "running"}
    IN CountOf(execs, Live)

\* C1: a registered task with maxConcurrent = k > 0 never has more than k job
\* bodies that have started and not yet returned.
ConcurrencyBound ==
    \A r \in Runners :
        Registered(r) /\ MaxConcurrentOf(r) > 0
            => RunningBodies(r) <= MaxConcurrentOf(r)

\* C2: with maxConcurrent = k > 0 an admission attempt is rejected when k
\* admitted job bodies have not returned yet, and is admitted when fewer than
\* k executions of the runner are in flight: of N attempts made before any
\* body returns, min(k, N) are admitted and the others rejected.
AdmissionExact ==
    [][\A r \in Runners :
          executeTask(r) /\ MaxConcurrentOf(r) > 0
              => /\ BodiesNotReturned(r) >= MaxConcurrentOf(r) => execs' = execs
                 /\ ExecsOf(r) < MaxConcurrentOf(r) => execs' # execs]_vars

\* C3: with maxConcurrent = 0 every executeTask attempt dispatches the job:
\* one more execution of the runner is in flight after it.
UnlimitedNeverRejects ==
    [][\A r \in Runners :
          executeTask(r) /\ MaxConcurrentOf(r) = 0
              => execs' = execs (+) SetToBag({NewExec(r)})]_vars

\* C3 witness: as many bodies of one unlimited task run at once as there are
\* executions in flight
UnlimitedOverlap ==
    \E r \in Runners :
        /\ Registered(r)
        /\ MaxConcurrentOf(r) = 0
        /\ RunningBodies(r) = MaxExec

\* C5: once stop() has returned on a running scheduler no loop is left, of a
\* registered runner or of a removed one: none waits on its timer, none is
\* about to call or inside executeTask.
StopLeavesNoLoop ==
    ret = Ret("stop", "nil") => \A r \in Runners : loops[r] = "none"

\* C5 witness: stop() has returned with a task registered
StopReturned ==
    /\ ret = Ret("stop", "nil")
    /\ tasks # <<>>

\* the runner registered under every ID carries that ID, and no runner is
\* registered twice
UniqueIDs ==
    /\ \A id \in DOMAIN tasks :
          runners[tasks[id]] # NoRunner /\ runners[tasks[id]].task.ID = id
    /\ \A i, j \in DOMAIN tasks : tasks[i] = tasks[j] => i = j

\* C7: addTask with an ID already in the map returns DuplicateTask and leaves
\* the map, the runners, the loops and the executions as they are; the IDs in
\* the map stay unique.
DuplicateRejected ==
    /\ []UniqueIDs
    /\ [][\A task \in TaskInputs :
             addTask(task) /\ task.ID \in DOMAIN tasks
                 => /\ ret' = Ret("addTask", "DuplicateTask")
                    /\ UNCHANGED <<tasks, running, runners, loops, execs>>]_vars

\* C7 witness: a duplicate addTask has returned while the first registration
\* is in place
DuplicateReturned ==
    /\ ret = Ret("addTask", "DuplicateTask")
    /\ tasks # <<>>

UnknownIDRejected ==
    [][\A id \in IDs :
          id \notin DOMAIN tasks
              => /\ removeTask(id)
                    => /\ ret' = Ret("removeTask", "TaskNotFound")
                       /\ UNCHANGED <<tasks, running, runners, loops, execs>>
                 /\ nextRunCall(id)
                    => /\ ret' = Ret("nextRun", "TaskNotFound")
                       /\ UNCHANGED <<tasks, running, runners, loops, execs>>]_vars

\* C10 witness: removeTask of an unknown ID has returned while another task
\* is registered and its loop is live
UnknownIDReturned ==
    /\ ret = Ret("removeTask", "TaskNotFound")
    /\ \E r \in Runners : Registered(r) /\ loops[r] # "none"

\* the loop of the task registered as id is at its trigger, or the task or
\* the scheduler is no longer there to be triggered
TriggeredOrGone(id) ==
    \/ id \notin DOMAIN tasks
    \/ ~running
    \/ loops[tasks[id]] = "trigger"

\* C4, the (K+1)th invocation: a task one of whose job bodies has panicked
\* is triggered again, unless it is removed or the scheduler stopped first
PanicTriggers ==
    \A id \in IDs :
        (/\ id \in DOMAIN tasks
         /\ \E x \in BagToSet(execs) : x.r = tasks[id] /\ x.body = "panicked")
            ~> TriggeredOrGone(id)

RestartTriggers ==
    \A id \in IDs :
        (ret = Ret("start", "nil") /\ id \in DOMAIN tasks)
            ~> TriggeredOrGone(id)

RemovedLoopExits ==
    \A r \in Runners :
        (runners[r] # NoRunner /\ ~Registered(r)) ~> (loops[r] = "none")

StartOnce ==
    [][start
          => IF running
             THEN /\ ret' = Ret("start", "AlreadyRunning")
                  /\ UNCHANGED <<tasks, running, mu, runners, loops, execs>>
             ELSE /\ ret' = Ret("start", "nil")
                  /\ running'
                  /\ \A r \in Runners :
                        /\ loops[r] = "none"
                        /\ loops'[r] = IF Registered(r) THEN "wait" ELSE "none"]_vars

\* C11 witness: start() has returned AlreadyRunning while a registered
\* runner's loop is inside executeTask
StartRefused ==
    /\ ret = Ret("start", "AlreadyRunning")
    /\ \E r \in Runners : Registered(r) /\ loops[r] = "exec"

\* C12: in every reachable state of the expression cache, whatever the
\* interleaving of the callers, the map holds at most Capacity entries.
CacheWithinCapacity == Cardinality(DOMAIN cache) <= Capacity

\* C13: an insert that finds the map full evicts the least recently used
\* entry, an entry's recency being refreshed by its insert and by every
\* promotion after a hit.
EvictsLeastRecent ==
    [][\A c \in Callers : insert(c) /\ Full => Oldest = Head(lru)]_vars

\* the probe instants of a schedule's Next
Probes == 0..3

\* C14: a caller that parses the same expression twice gets schedules with
\* the same Next at every probe instant, and the very same Schedule object
\* if no eviction took place since its first call returned.
CacheTransparent ==
    [][\A c \in Callers :
          /\ promote(c) \/ insert(c)
          /\ callers[c].result.spec = callers[c].spec
          => LET first == callers[c].result
                 second == callers'[c].result
             IN /\ \A t \in Probes :
                      ScheduleNext(second.schedule.schedule, t)
                         = ScheduleNext(first.schedule.schedule, t)
                /\ second.evictions = first.evictions
                      => second.schedule.obj = first.schedule.obj]_vars

\* C15: a result of Next(T) that is not the zero time is later than T.
NextIsLater == nx.pc = "done" /\ ~nx.zero => nx.t > nx.arg

\* the day rule: with neither field a wildcard the date matches when its
\* day of month or its day of week is in the field; with a wildcard the other
\* field alone decides
DayRule(s, w) ==
    IF StarBit \notin s.Dom /\ StarBit \notin s.Dow
    THEN Day(w) \in s.Dom \/ Weekday(w) \in s.Dow
    ELSE IF StarBit \notin s.Dom THEN Day(w) \in s.Dom
    ELSE IF StarBit \notin s.Dow THEN Weekday(w) \in s.Dow
    ELSE TRUE

\* C16: the day loop of Next lets a date pass (goes on to the hours) exactly
\* when the date matches the schedule by the day rule.
DayMatchingRule ==
    [][nextDay => (nx'.pc = "hour" <=> DayRule(nx.s, Wall(nx.loc, nx.t)))]_vars

\* C16 witness: with both day fields restricted, the search has gone on to
\* the hours of a date whose day of week matches and whose day of month does
\* not.
DayOfWeekAlone ==
    /\ nx.pc = "hour"
    /\ StarBit \notin nx.s.Dom
    /\ StarBit \notin nx.s.Dow
    /\ Day(Wall(nx.loc, nx.t)) \notin nx.s.Dom
    /\ Weekday(Wall(nx.loc, nx.t)) \in nx.s.Dow

\* C17: every call of Next returns.
NextTerminates == <>(nx.pc = "done")

\* the execution contexts derived so far are all Done
ExecContextsDone == \A x \in BagToSet(execs) : x.pc # "start" => x.ctx

Stopped == ~running /\ \A r \in Runners : loops[r] = "none"

RunCount(m, id) == m.stats[id].RunCount
SuccessCount(m, id) == m.stats[id].SuccessCount

\* an invocation whose body panicked ends its pipeline
PanicEnds(x) == x.body = "panicked" /\ executeHandler(x)

\* the panic of a body is delivered once to the PanicHandler with the ID of
\* the task, and nothing reaches the loop or the caller of the API
PanicDelivered ==
    \A x \in BagToSet(execs) :
        handlerPanic(x) =>
            /\ handled'.calls = [handled.calls EXCEPT ![x.id] = @ + 1]
            /\ UNCHANGED <<tasks, running, mu, runners, loops, ret, monitor>>

\* the PanicHandler is called for panics only
PanicsOnly ==
    handled' # handled => \E x \in BagToSet(execs) : handlerPanic(x)

\* C19 as stated: every panic in a job body is delivered exactly once to the
\* PanicHandler with the task ID, and the invocation is recorded to the
\* Monitor as failed: runCount incremented, successCount not incremented;
\* nothing reaches the loop or the caller of the API.
PanicAlwaysRecorded ==
    [][/\ PanicDelivered
       /\ PanicsOnly
       /\ \A x \in BagToSet(execs) :
             PanicEnds(x) =>
                 /\ x.id \in DOMAIN monitor'.stats
                 /\ x.id \in DOMAIN monitor.stats
                 /\ RunCount(monitor', x.id) = RunCount(monitor, x.id) + 1
                 /\ SuccessCount(monitor', x.id) = SuccessCount(monitor, x.id)
      ]_vars

\* C19 amended: every panic in a job body is delivered exactly once to the
\* PanicHandler with the task ID, nothing reaches the loop or the caller of
\* the API, and the invocation is recorded to the Monitor as failed
\* (runCount incremented, successCount not incremented) when the Monitor
\* still has statistics for the task ID as the pipeline finishes; for a task
\* that Cron.Remove took from the Monitor meanwhile nothing is recorded.
PanicRecordedIfKnown ==
    [][/\ PanicDelivered
       /\ PanicsOnly
       /\ \A x \in BagToSet(execs) :
             PanicEnds(x) =>
                 IF x.id \in DOMAIN monitor.stats
                 THEN /\ x.id \in DOMAIN monitor'.stats
                      /\ RunCount(monitor', x.id) = RunCount(monitor, x.id) + 1
                      /\ SuccessCount(monitor', x.id)
                            = SuccessCount(monitor, x.id)
                 ELSE monitor' = monitor
      ]_vars

\* a panic was delivered and its invocation recorded as a failure
PanicRecorded ==
    /\ handled.calls["a"] = 1
    /\ "a" \in DOMAIN monitor.stats
    /\ monitor.stats["a"] = [RunCount |-> 1, SuccessCount |-> 0,
                             IsRunning |-> FALSE]
    /\ execs = EmptyBag


\* invocations of runner r admitted into a slot whose deadline passed and
\* whose job body is still running
TimedOutBodies(r) ==
    LET Late(x) == x.r = r /\ x.slot /\ x.exceeded /\ x.body = "running"
    IN CountOf(execs, Late)

\* the pipeline of x returns because the deadline passed, the body running
TimesOut(x) ==
    /\ x.exceeded
    /\ x.body = "running"
    /\ executeHandler(x)

\* a timeout is reported to the Monitor as a failed outcome: the run is
\* counted for a task the Monitor knows, and no success
TimeoutReported ==
    [][\A x \in BagToSet(execs) :
          TimesOut(x) =>
              IF x.id \in DOMAIN monitor.stats
              THEN /\ x.id \in DOMAIN monitor'.stats
                   /\ RunCount(monitor', x.id) = RunCount(monitor, x.id) + 1
                   /\ SuccessCount(monitor', x.id) = SuccessCount(monitor, x.id)
              ELSE monitor' = monitor]_vars

\* the slot of a timed-out invocation stays occupied while its body runs:
\* the pipeline's return leaves the semaphore as it was, and a trigger that
\* finds all the slots of its task taken by timed-out bodies is rejected
SlotHeldAfterTimeout ==
    [][/\ \A x \in BagToSet(execs) :
             TimesOut(x) /\ x.slot /\ x.r # 0 =>
                 runners'[x.r].semaphore = runners[x.r].semaphore
       /\ \A r \in Runners :
             /\ executeTask(r)
             /\ MaxConcurrentOf(r) > 0
             /\ TimedOutBodies(r) >= MaxConcurrentOf(r)
             => execs' = execs
      ]_vars

\* C20: when the deadline of an admitted invocation passes before the job
\* body returns, a failed outcome is reported to the Monitor and the slot
\* stays occupied until the body itself returns: while the timed-out body is
\* still running, a later trigger is not admitted into that slot.
TimeoutHoldsSlot == TimeoutReported /\ SlotHeldAfterTimeout

\* the runTask goroutine of runner r has been started and has not returned
LoopExists(r) == loops[r] # "none"

LoopIffRunning ==
    \A r \in Runners : LoopExists(r) <=> (running /\ Registered(r))

\* C21 as stated: in every reachable state a runner's loop exists if and only
\* if the running flag is set and the runner is registered.
LoopIffRunningAlways == LoopIffRunning

\* C21 amended: in every state in which no goroutine has a step to take (no
\* loop has yet to see its context Done, stop() is not waiting, no watcher
\* has yet to act on the cancelled root) a runner's loop exists if and only
\* if the running flag is set and the runner is registered.
LoopIffRunningSettled == ~Urgent => LoopIffRunning

\* a settled state of a running scheduler after a removal and a new
\* registration: the loop of the second runner object exists, the first
\* runner and its loop are gone
SettledAfterReAdd ==
    /\ ~Urgent
    /\ running
    /\ rootCtx = "live"
    /\ runners[1] = NoRunner
    /\ Registered(2) /\ LoopExists(2)

\* every slot of runner r is taken
SlotsTaken(r) ==
    MaxConcurrentOf(r) > 0 /\ runners[r].semaphore >= MaxConcurrentOf(r)

\* job bodies invoked and not yet out of sight
Bodies == LET Invoked(x) == x.body # "none" IN CountOf(execs, Invoked)

\* C22: a trigger that finds every slot taken is dropped: executeTask
\* dispatches nothing for it, the loop sets the next-run time and waits
\* again; and nothing is dispatched later for it: an execution comes into
\* being only in an executeTask step that admits its own trigger, and a job
\* body only starts for such an execution.
RejectedDropped ==
    [][/\ \A r \in Runners :
             executeTask(r) /\ SlotsTaken(r) =>
                 /\ execs' = execs
                 /\ loops'[r] = "wait"
                 /\ runners'[r].nextRun = ScheduleNext(runners[r].schedule, Now)
                 /\ runners'[r].semaphore = runners[r].semaphore
       /\ BagCardinality(execs') > BagCardinality(execs) =>
             \E r \in Runners :
                 /\ executeTask(r) /\ ~SlotsTaken(r)
                 /\ execs' = execs (+) SetToBag({NewExec(r)})
       /\ Bodies' > Bodies =>
             \/ \E r \in Runners : executeTask(r) /\ ~SlotsTaken(r)
             \/ \E x \in BagToSet(execs) : run(x)
      ]_vars

\* a trigger of an async task has fired while the job body of the admitted
\* invocation still runs in the only slot: it is about to be rejected
RejectionDue ==
    \E r \in Runners :
        /\ Registered(r)
        /\ loops[r] = "trigger"
        /\ SlotsTaken(r)
        /\ RunningBodies(r) = 1

\* admitted invocations of runner r that took a slot and whose pipeline
\* (run) has not finished
PipelinesInSlots(r) ==
    LET Holds(x) == x.r = r /\ x.slot /\ x.pc # "done"
    IN CountOf(execs, Holds)

\* C23: the occupied slots of a runner are exactly the admitted invocations
\* whose pipeline has not finished: every pipeline that finishes (after a
\* return, a panic or a timeout, sync or async) frees its slot once, none is
\* freed twice and none stays taken.
SlotsMatchPipelines ==
    \A r \in Runners :
        runners[r] # NoRunner => runners[r].semaphore = PipelinesInSlots(r)

\* the pipeline of a timed-out invocation has finished and freed the slot,
\* after an earlier invocation of the runner panicked
SlotFreedAfterTimeout ==
    \E r \in Runners :
        /\ Registered(r)
        /\ runners[r].semaphore = 0
        /\ \E x \in BagToSet(execs) :
              x.r = r /\ x.slot /\ x.exceeded /\ x.pc = "done"
        /\ handled.calls[runners[r].task.ID] = 1

\* the next-run time of runner r is the sentinel of an unsatisfiable
\* schedule
Unsatisfiable(r) == runners[r] # NoRunner /\ runners[r].nextRun = ZeroTime

\* C24: when the next-run time is the unsatisfiable sentinel the loop does
\* not take it for a due time: no trigger fires for the runner and its job
\* is not dispatched.
SentinelNeverFires ==
    [][\A r \in Runners :
          Unsatisfiable(r) => ~runTaskTimer(r) /\ ~executeTask(r)]_vars

\* C25: a start() that follows a stop() leaves every task with a next-run
\* time computed from the time of this start(): schedule.Next(now), which is
\* still ahead, so that no task fires at once because of a time computed
\* before the restart.
RestartRecomputes ==
    [][start /\ ret = Ret("stop", "nil") =>
          \A r \in Runners :
              Registered(r) =>
                  /\ runners'[r].nextRun = ScheduleNext(runners[r].schedule, Now)
                  /\ runners'[r].nextRun > Now]_vars

\* addTask registers a runner: its loop is started when the scheduler is
\* running and is not when it is stopped
AddStartsLoop ==
    [][\A task \in OneTask :
          addTask(task) /\ ret' = Ret("addTask", "nil") =>
              loops'[tasks'[task.ID]] = IF running THEN "wait" ELSE "none"]_vars

\* a loop comes into being only in start() or in an addTask on a running
\* scheduler, and only a loop fires a trigger
LoopsStartedBy ==
    [][\A r \in Runners :
          /\ ~LoopExists(r) /\ LoopExists(r)' =>
                 start \/ (running /\ \E task \in OneTask : addTask(task))
          /\ runTaskTimer(r) \/ executeTask(r) => LoopExists(r)]_vars

\* the loop of a registered runner of a running scheduler gets its trigger,
\* unless the scheduler is stopped or the runner removed before
LoopTriggers ==
    \A r \in Runners :
        (running /\ Registered(r) /\ loops[r] = "wait")
            ~> (loops[r] = "trigger" \/ ~running \/ ~Registered(r))

AsyncOf(r) == runners[r].task.Options.Async

\* while a sync loop is inside executeTask it sets no next-run time and takes
\* no trigger; it does so when the pipeline of its invocation returns
SyncLoopWaits ==
    [][\A r \in Runners :
          loops[r] = "exec" =>
              /\ ~AsyncOf(r)
              /\ ~runTaskTimer(r) /\ ~executeTask(r)
              /\ loops'[r] = "exec" => runners'[r].nextRun = runners[r].nextRun
              /\ loops'[r] # "exec" =>
                     \E x \in BagToSet(execs) : x.r = r /\ executeHandler(x)]_vars

\* an async executeTask returns after the admission decision: the loop sets
\* the next-run time and waits again, whatever the job does
AsyncLoopGoesOn ==
    [][\A r \in Runners :
          executeTask(r) /\ AsyncOf(r) =>
              /\ loops'[r] = "wait"
              /\ runners'[r].nextRun = ScheduleNext(runners[r].schedule, Now)]_vars

\* two job bodies of a sync task never run at the same time
SyncBodiesAlone ==
    \A r \in Runners :
        runners[r] # NoRunner /\ ~AsyncOf(r) => RunningBodies(r) <= 1

\* C27: with async = false the loop neither sets the next-run time nor takes
\* another trigger until the current invocation has completed, and two
\* invocations of the task never overlap; with async = true executeTask
\* returns right after the admission decision and the loop sets the next-run
\* time while the job is still running.
SyncSerialAsyncOverlaps ==
    SyncLoopWaits /\ AsyncLoopGoesOn /\ []SyncBodiesAlone

\* every runner context and every execution context there is, is Done
AllDone(rs, es) ==
    /\ \A r \in Runners : rs[r] # NoRunner => rs[r].ctx
    /\ \A x \in BagToSet(es) : x.pc # "start" => x.ctx

\* the scheduler scope is cancelled: by stop(), by the watcher's Stop, or
\* with the root context
CancelsScheduler ==
    \/ running /\ stop
    \/ running /\ contextWatcher
    \/ cancelRoot

\* C28: cancellation is a tree.  Cancelling the scheduler scope (stop or
\* root cancellation) makes every runner context and every execution
\* context Done.  removeTask makes the removed runner's execution contexts
\* Done and leaves every other runner (context, next-run time, slots), its
\* loop and its executions as they were.  An execution context derived
\* from a runner context that is Done is Done.
CancellationTree ==
    [][/\ CancelsScheduler => AllDone(runners', execs')
       /\ \A id \in DOMAIN tasks :
             removeTask(id) =>
                 LET r == tasks[id]
                 IN /\ \A x \in BagToSet(execs') :
                          x.r = r /\ x.pc # "start" => x.ctx
                    /\ \A x \in BagToSet(execs) :
                          x.r = r /\ x.pc = "select" =>
                              \E y \in BagToSet(execs') :
                                  y.id = x.id /\ y.pc = "select" /\ y.ctx
                    /\ \A q \in Runners \ {r} :
                          /\ runners'[q] = runners[q]
                          /\ loops'[q] = loops[q]
                          /\ \A x \in BagToSet(execs) \cup BagToSet(execs') :
                                x.r = q => CopiesIn(x, execs') = CopiesIn(x, execs)
       /\ \A x \in BagToSet(execs) :
             run(x) /\ x.r # 0 /\ runners[x.r].ctx =>
                 \E y \in BagToSet(execs') : y.pc = "select" /\ y.r = x.r /\ y.ctx
      ]_vars

\* task "a" has been removed from the running scheduler: the context of
\* its execution is Done though its deadline has not passed, and the
\* execution of task "b" goes on with a context that is not Done
RemovedAloneCancelled ==
    /\ running
    /\ ret = Ret("removeTask", "nil")
    /\ DOMAIN tasks = {"b"}
    /\ \E x, y \in BagToSet(execs) :
          /\ x.id = "a" /\ x.ctx /\ ~x.exceeded
          /\ y.id = "b" /\ y.pc = "select" /\ ~y.ctx

\* the entry caller c found under the read lock is gone from the map
EntryGone(c) == callers[c].pc = "hit" /\ callers[c].spec \notin DOMAIN cache

\* C29: when the entry a lookup hit was evicted before its promotion, the
\* promotion finds it missing and leaves the access-order list (and the
\* map) as it is: no key is moved, removed or added.
PromotionRechecks ==
    [][\A c \in Callers :
          EntryGone(c) /\ promote(c) =>
              accessOrder' = accessOrder /\ cache' = cache]_vars

\* a lookup has returned a schedule for an expression that is not cached,
\* with nothing evicted since: its hit was promoted after the eviction
PromotedAfterEviction ==
    \E c \in Callers :
        /\ callers[c].pc = "idle"
        /\ callers[c].result.spec # NoSpec
        /\ ~callers[c].result.err
        /\ callers[c].result.spec \notin DOMAIN cache
        /\ callers[c].result.evictions = evictions

\* the expression is one of the keys of the access-order list
Listed(order, spec) == \E i \in 1..Len(order) : order[i] = spec

\* C30: a lookup whose entry is gone at the promotion goes on as a miss: the
\* expression is parsed again and inserted, so that when a lookup returns a
\* schedule its expression is in the map and in the access-order list.
ReturnedIsCached ==
    [][\A c \in Callers :
          /\ callers[c].pc # "idle"
          /\ callers'[c].pc = "idle"
          /\ ~callers'[c].result.err
          => /\ callers'[c].result.spec \in DOMAIN cache'
             /\ Listed(accessOrder', callers'[c].result.spec)
      ]_vars

\* an instant matches a schedule when the reading of the clock of the
\* location has its second, minute, hour and month in the fields and its
\* date matches by the day rule
Matches(s, loc, unix) ==
    LET w == Wall(loc, unix)
    IN /\ Second(w) \in s.Second
       /\ Minute(w) \in s.Minute
       /\ Hour(w) \in s.Hour
       /\ Month(w) \in s.Month
       /\ DayRule(s, w)

\* C31: a result of Next(T) that is not the zero time matches every field of
\* the schedule, is later than T, and no instant between T and the result
\* matches: it is the earliest match after T.
NextIsEarliest ==
    nx.pc = "done" /\ ~nx.zero =>
        /\ Matches(nx.s, nx.loc, nx.t)
        /\ nx.t > nx.arg
        /\ \A u \in (nx.arg + 1)..(nx.t - 1) : ~Matches(nx.s, nx.loc, u)

\* the live goroutines the scheduler owns: the task loops and the watchers
\* of the root context
Goroutines == Cardinality({r \in Runners : LoopExists(r)}) + watchers

\* C32: start/stop cycles leave no goroutine behind.  No goroutine exists
\* before the first start, and with a root context that is not cancelled
\* none begins or ends between the return of stop and the next start, so
\* whenever the scheduler is stopped and no stop is under way there is none.
NoGoroutineLeft ==
    ~running /\ mu = "free" /\ rootCtx = "live" => Goroutines = 0

\* C33: an asynchronous job of the cronScheduler with maxConcurrent = k > 0
\* never has more than k executions of its function running at once.
LegacyConcurrencyBound == job.made => GoroutinesAt("do") <= job.maxConcurrent

\* C34: the access-order list holds exactly the keys of the cache map, each
\* of them once.
AccessOrderExact ==
    /\ {accessOrder[i] : i \in 1..Len(accessOrder)} = DOMAIN cache
    /\ Len(accessOrder) = Cardinality(DOMAIN cache)

\* C35: a lookup whose expression fails to parse returns the error and
\* leaves the cache map and the access-order list as they were, and no
\* expression that fails to parse is ever in the cache.
FailedParseLeavesCache ==
    /\ [][\A c \in Callers, spec \in CacheExprs :
             lookup(c, spec) /\ parseNoCache(spec).err
                => /\ callers'[c].pc = "idle"
                   /\ callers'[c].result.err
                   /\ callers'[c].result.spec = spec
                   /\ cache' = cache
                   /\ accessOrder' = accessOrder]_vars
    /\ [](\A spec \in DOMAIN cache : ~parseNoCache(spec).err)

\* C35 witness: a call with an expression that fails to parse has returned
\* the error after an eviction, that is with the cache full.
FailedWithCacheFull ==
    /\ Full
    /\ \E c \in Callers :
          /\ callers[c].pc = "idle"
          /\ callers[c].result.err
          /\ callers[c].result.evictions >= 1
          /\ parseNoCache(callers[c].result.spec).err

\* C36: a call of ScheduleJob that returns an error leaves the Monitor as it
\* was: no statistics are reset and none are created.
FailedScheduleLeavesMonitor ==
    [][\A task \in OneTask :
          ScheduleJob(task) /\ ret'.err # "nil" => monitor' = monitor]_vars

\* a trigger is admitted and the executions in flight, whose bodies need
\* never end, have reached the number the model follows
ExecsFull ==
    \E r \in Runners :
        /\ loops[r] = "trigger"
        /\ Admitted(runners[r])
        /\ BagCardinality(execs) >= MaxExec

\* C37: a call of stop() on a running scheduler returns, with every loop
\* gone, whether or not the job bodies ever end.
StopAlwaysReturns ==
    (mu = "stop") ~>
        \/ mu = "free" /\ ret = Ret("stop", "nil") /\ WaitGroupDone
        \/ ExecsFull

\* C37 witness: stop() has returned while the body of a synchronous
\* invocation still runs, its pipeline ended by the cancellation and not by
\* a deadline, and no loop is left.
StoppedWithBodyRunning ==
    /\ mu = "free"
    /\ ~running
    /\ ret = Ret("stop", "nil")
    /\ WaitGroupDone
    /\ \E x \in BagToSet(execs) :
          ~x.async /\ x.body = "running" /\ x.r # 0 /\ ~x.exceeded

\* a job body begins: an async run() reaches the job, or executeTask calls
\* run() in the loop's goroutine
BodyBegins ==
    \/ \E x \in BagToSet(execs) : run(x)
    \/ \E r \in Runners : executeTask(r) /\ loops'[r] = "exec"

\* C38: while the scheduler is stopped (stop() has returned, or start() was
\* never called) no job body begins.
NoBodyWhileStopped == [][BodyBegins => running \/ mu # "free"]_vars

\* the invocations of a task between the start and the completion that the
\* pipeline reports to the Monitor
InProgress(id) ==
    LET Reported(x) == x.id = id /\ x.pc = "select"
    IN CountOf(execs, Reported)

\* C39: for every registered task the Monitor's IsRunning flag is set exactly
\* when an invocation of the task is between its reported start and its
\* reported completion.
IsRunningExact ==
    \A id \in DOMAIN tasks :
        monitor.on /\ id \in DOMAIN monitor.stats
            => (monitor.stats[id].IsRunning <=> InProgress(id) > 0)

\* the IDs the Monitor has statistics for
Watched == IF monitor.on THEN DOMAIN monitor.stats ELSE {}

\* successCount <= runCount for every task
SuccessWithinRuns ==
    \A id \in Watched : SuccessCount(monitor, id) <= RunCount(monitor, id)

\* a pipeline that finishes for a registered task adds one to the task's
\* RunCount, and nothing to its SuccessCount or one
FinishCountsOne ==
    \A x \in BagToSet(execs) :
        executeHandler(x) /\ x.id \in DOMAIN tasks
           => /\ x.id \in Watched
              /\ RunCount(monitor', x.id) = RunCount(monitor, x.id) + 1
              /\ SuccessCount(monitor', x.id) - SuccessCount(monitor, x.id)
                    \in {0, 1}

\* RunCount grows only when a pipeline of the task finishes
CountsFinishesOnly ==
    \A id \in Watched :
        id \in DOMAIN monitor'.stats
           /\ RunCount(monitor', id) > RunCount(monitor, id)
           => \E x \in BagToSet(execs) : x.id = id /\ executeHandler(x)

\* a trigger that admission control rejects leaves the Monitor as it was
RejectionNotCounted ==
    \A r \in Runners :
        executeTask(r) /\ ~Admitted(runners[r]) => monitor' = monitor

\* C40: successCount <= runCount in every state; runCount grows by exactly
\* one for each pipeline that finishes while the task is registered, and by
\* nothing else; a rejected trigger changes no statistics.
RunsCounted ==
    /\ []SuccessWithinRuns
    /\ [][FinishCountsOne]_vars
    /\ [][CountsFinishesOnly]_vars
    /\ [][RejectionNotCounted]_vars

\* C40 witness: a registered task has a run on record that was not a
\* success, another invocation holds its semaphore, and the trigger the loop
\* has taken is about to be rejected.
CountedWithRejection ==
    \E id \in DOMAIN tasks :
        /\ id \in Watched
        /\ RunCount(monitor, id) >= 1
        /\ SuccessCount(monitor, id) < RunCount(monitor, id)
        /\ loops[tasks[id]] = "trigger"
        /\ ~Admitted(runners[tasks[id]])

====
